---- MODULE Spec2Model ----
(***************************************************************************)
(* Model of the meme generator backend:                                    *)
(*   - safe_db_operation, the retry wrapper        (features/generate/agent.py)   *)
(*   - summarize_old_messages, the history trimmer (features/generate/agent.py)   *)
(*   - chat_stream.streamer, the streaming run     (features/generate/service.py) *)
(*   - the tools of the manager agent              (features/generate/agent.py)   *)
(*   - caption requests and their variants         (features/caption_*/service.py) *)
(*   - get_session, the session dependency         (database/core.py)             *)
(* Each part has its own specifications (SpecRetry; SpecAssemble; SpecRun, *)
(* SpecTransport, SpecHistory, SpecValidation; SpecTools, SpecLookup;      *)
(* SpecCaptions; SpecSession); the variables of the other parts stay       *)
(* parked.                                                                 *)
(***************************************************************************)
EXTENDS Integers, Sequences, FiniteSets, TLC

VARIABLES
    \* ---- safe_db_operation ----
    sdo_pc,        \* "try" | "returned" | "raised"
    sdo_max,       \* the max_retries argument
    sdo_attempt,   \* the loop variable `attempt`
    sdo_script,    \* what operation() does on its 1st, 2nd, ... invocation
    sdo_calls,     \* number of invocations of operation() so far
    sdo_sleeps,    \* the time.sleep calls made, in units of 0.5 s
    sdo_result,    \* the value returned or the exception raised
    sdo_commits,   \* whether the commit of the 1st, 2nd, ... invocation takes effect
    sdo_rows,      \* rows the invocations have committed so far
    \* ---- summarize_old_messages ----
    asm_pc,        \* "call" | "returned" | "raised"
    asm_messages,  \* the `messages` argument
    asm_result,    \* the list returned
    \* ---- chat_stream.streamer: one conversation, its runs one after another ----
    scenario,      \* which family of model outputs is explored
    run_pc,        \* "idle" | "load" | "agent" | "tool" | "stream" | "store" | "done"
    run_no,        \* number of runs started so far
    run_outcome,   \* how the current run ended ("none" while it runs)
    run_session,   \* stream_session: "none" | "open" | "closed"
    frames,        \* the frames the client received in the current run
    history,       \* message_history handed to the agent
    text,          \* the text of the model's final response
    cuts,          \* lengths of the text pieces stream_text has yielded
    tool_inflight, \* the tool the agent is awaiting ("none" if none)
    tools_called,  \* tool calls the model made in the current run
    tool_failures, \* consecutive tool calls that ended in a retry prompt
    run_cause,     \* why the run ended early: "none" | "disconnect" | "failure" | "tool_retries"
    detached,      \* the tool calls still running in worker threads after their run was cut off
    db_messages,   \* rows of the Message table of the conversation
    db_memes,      \* rows of the UserMeme table of the conversation
    db_summary,    \* Conversation.summary, as the number of the write that set it
    \* ---- the tools the manager agent dispatches, on one conversation ----
    tl_provider,   \* provider part of image_agent_model
    tl_memes,      \* UserMeme rows of the conversation, oldest first
    tl_issued,     \* response ids the image provider has issued so far
    tl_batches,    \* model responses with tool calls so far
    tl_active,     \* tool calls dispatched and not yet ended
    tl_done,       \* the tool call that ended last
    tl_before,     \* tl_memes as that call found them
    tl_result,     \* what that call returned or raised
    tl_calls,      \* invocations of the wrapped database operation in that call
    tl_agent,      \* create_manager_agent: "none" (not called) | "agent" | "ValueError"
    tl_urgent,     \* the user's message holds time-sensitive words ("today", ...)
    tl_searched,   \* the built-in web search was used in this run
    tl_last_image, \* response_id of the ImageResult returned last (0: none yet)
    \* ---- caption requests and caption variants ----
    cap_fk,        \* what the database does with the foreign keys on delete
    cap_requests,  \* the caption_requests rows: [id, owner, chosen]
    cap_variants,  \* the caption_variants rows: [id, request]
    cap_made,      \* rows created so far: [requests, variants] (ids are never reused)
    cap_gone,      \* requests their owner has deleted: [id, owner, had]
    \* ---- get_session / get_session_with_retry ----
    gs_pc,         \* "parked" | "loop" | "body" | "again" | "done"
    gs_max,        \* max_retries
    gs_retry,      \* retry_count
    gs_sessions,   \* the sessions created and yielded: [tx, closed, added]
    gs_stored,     \* rows the request has made durable
    gs_sleeps,     \* the time.sleep calls made, in units of 0.5 s
    gs_body,       \* how the request body ended: "none" | "ok" | an exception
    gs_outcome     \* how the generator ended: "none" | "returned" | the exception raised

retryVars == <<sdo_pc, sdo_max, sdo_attempt, sdo_script, sdo_calls, sdo_sleeps, sdo_result,
               sdo_commits, sdo_rows>>

asmVars == <<asm_pc, asm_messages, asm_result>>

runVars == <<scenario, run_pc, run_no, run_outcome, run_session, frames, history,
             text, cuts, tool_inflight, tools_called, tool_failures, run_cause, detached,
             db_messages, db_memes, db_summary>>

toolVars == <<tl_agent, tl_urgent, tl_searched, tl_provider, tl_memes, tl_issued, tl_batches, tl_active, tl_done,
              tl_before, tl_result, tl_calls, tl_last_image>>

capVars == <<cap_fk, cap_requests, cap_variants, cap_made, cap_gone>>

gsVars == <<gs_pc, gs_max, gs_retry, gs_sessions, gs_stored, gs_sleeps, gs_body, gs_outcome>>

vars == <<retryVars, asmVars, runVars, toolVars, capVars, gsVars>>

(***************************************************************************)
(* Bounds of the model and constants of the program.                       *)
(***************************************************************************)
\* largest max_retries argument explored (the callers pass none: default 3)
MaxAttempts == 4

\* def safe_db_operation(operation, session, max_retries=3)
DefaultMaxRetries == 3

\* longest transcript handed to summarize_old_messages
MaxTurns == 17

\* the transcripts explored start at turn 1 .. MaxFirstTurn
MaxFirstTurn == 3

\* most messages a summarizer run adds (summary.new_messages())
MaxSummaryMsgs == 2

\* runs of the conversation explored
MaxRuns == 2

\* tool calls the model makes in one run
MaxToolCalls == 1

\* text pieces stream_text yields in one run
MaxPieces == 2

\* fields after the sentinel word in the model outputs explored
MaxFields == 4

\* model responses with tool calls explored on one conversation
MaxBatches == 2

\* tool calls the model requests in one response
MaxBatch == 2

\* Message rows a conversation holds before the runs explored
MaxStoredRows == 2

\* caption requests created in the runs explored
MaxRequests == 2

\* caption variants created in the runs explored
MaxVariants == 2

\* rows a request body adds to its session
MaxWrites == 2

\* text_piece.split(":", 3)
MaxSplit == 3

\* `if len(messages) > 15`
TrimThreshold == 15

\* `messages[:10]`
OldestBlock == 10

\* `messages[-5:]`
KeepRecent == 5

(***************************************************************************)
(* safe_db_operation (agent.py 945-964)                                    *)
(***************************************************************************)
\* What one invocation of operation() can do: return, raise
\* sqlalchemy.exc.OperationalError, or raise any other exception.
Outcomes == {"ok", "OperationalError", "Exception"}

Scripts(n) == [1..n -> Outcomes]

NoResult == [kind |-> "none", at |-> 0]

\* the object an invocation produces: the value it returns or the exception
\* it raises, tagged with the invocation that produced it
Produced(outcome, call) ==
    IF outcome = "ok" THEN [kind |-> "value", at |-> call]
    ELSE [kind |-> outcome, at |-> call]

\* mutants of the classification and of the retry test
IsTransient_Never(outcome) == FALSE

IsTransient_AnyError(outcome) == outcome # "ok"

MayRetry_OneShort(attempt, max_retries) == attempt < max_retries - 2

\* `except OperationalError` (line 952); everything else is line 962
IsTransient(outcome) == outcome = "OperationalError"

\* `if attempt < max_retries - 1` (line 953)
MayRetry(attempt, max_retries) == attempt < max_retries - 1

\* time.sleep(0.5 * (attempt + 1)) (line 957), in units of 0.5 s
Backoff(attempt) == attempt + 1

\* mutant: a distinguished error replaces the operation's own
ExhaustedError_Wrapped(err) == [kind |-> "ExhaustedRetries", at |-> err.at]

\* what `raise` re-raises once the retries are used up (line 961)
ExhaustedError(err) == err

\* an operation such as create_user_meme adds its row, commits, and then
\* refreshes the row (user_memes/service.py 71-76): when it returns, its
\* commit has taken effect; when it raises, the commit may (the error came
\* from the refresh, or the acknowledgement of the commit was lost) or may
\* not have taken effect
Commits(script) ==
    {c \in [1..Len(script) -> BOOLEAN] : \A k \in 1..Len(script) : script[k] = "ok" => c[k]}

\* rows in storage after the next invocation of operation()
RowsAfter(rows, commits, call) == IF commits[call] THEN rows + 1 ELSE rows

RetryParked ==
    /\ sdo_max = 1
    /\ sdo_script = <<"ok">>
    /\ sdo_commits = <<TRUE>>
    /\ sdo_rows = 0
    /\ sdo_pc = "returned"
    /\ sdo_attempt = 0
    /\ sdo_calls = 0
    /\ sdo_sleeps = <<>>
    /\ sdo_result = NoResult

RetryInit ==
    /\ sdo_max \in 1..MaxAttempts
    /\ sdo_script \in Scripts(sdo_max)
    /\ sdo_commits \in Commits(sdo_script)
    /\ sdo_rows = 0
    /\ sdo_pc = "try"
    /\ sdo_attempt = 0
    /\ sdo_calls = 0
    /\ sdo_sleeps = <<>>
    /\ sdo_result = NoResult

\* one pass of the loop body whose invocation returns: `return operation()`
SdoReturn ==
    /\ sdo_pc = "try"
    /\ sdo_attempt < sdo_max
    /\ sdo_script[sdo_calls + 1] = "ok"
    /\ sdo_calls' = sdo_calls + 1
    /\ sdo_rows' = RowsAfter(sdo_rows, sdo_commits, sdo_calls + 1)
    /\ sdo_result' = Produced("ok", sdo_calls + 1)
    /\ sdo_pc' = "returned"
    /\ UNCHANGED <<sdo_max, sdo_attempt, sdo_script, sdo_commits, sdo_sleeps>>
    /\ UNCHANGED <<asmVars, runVars, toolVars, capVars, gsVars>>

\* OperationalError with attempts left: sleep, continue
SdoRetry ==
    /\ sdo_pc = "try"
    /\ sdo_attempt < sdo_max
    /\ IsTransient(sdo_script[sdo_calls + 1])
    /\ MayRetry(sdo_attempt, sdo_max)
    /\ sdo_calls' = sdo_calls + 1
    /\ sdo_rows' = RowsAfter(sdo_rows, sdo_commits, sdo_calls + 1)
    /\ sdo_sleeps' = Append(sdo_sleeps, Backoff(sdo_attempt))
    /\ sdo_attempt' = sdo_attempt + 1
    /\ UNCHANGED <<sdo_pc, sdo_max, sdo_script, sdo_commits, sdo_result>>
    /\ UNCHANGED <<asmVars, runVars, toolVars, capVars, gsVars>>

\* OperationalError on the last attempt: bare `raise`
SdoExhausted ==
    /\ sdo_pc = "try"
    /\ sdo_attempt < sdo_max
    /\ IsTransient(sdo_script[sdo_calls + 1])
    /\ ~MayRetry(sdo_attempt, sdo_max)
    /\ sdo_calls' = sdo_calls + 1
    /\ sdo_rows' = RowsAfter(sdo_rows, sdo_commits, sdo_calls + 1)
    /\ sdo_result' = ExhaustedError(Produced(sdo_script[sdo_calls + 1], sdo_calls + 1))
    /\ sdo_pc' = "raised"
    /\ UNCHANGED <<sdo_max, sdo_attempt, sdo_script, sdo_commits, sdo_sleeps>>
    /\ UNCHANGED <<asmVars, runVars, toolVars, capVars, gsVars>>

\* any other exception: `except Exception ... raise`
SdoPropagate ==
    /\ sdo_pc = "try"
    /\ sdo_attempt < sdo_max
    /\ sdo_script[sdo_calls + 1] # "ok"
    /\ ~IsTransient(sdo_script[sdo_calls + 1])
    /\ sdo_calls' = sdo_calls + 1
    /\ sdo_rows' = RowsAfter(sdo_rows, sdo_commits, sdo_calls + 1)
    /\ sdo_result' = Produced(sdo_script[sdo_calls + 1], sdo_calls + 1)
    /\ sdo_pc' = "raised"
    /\ UNCHANGED <<sdo_max, sdo_attempt, sdo_script, sdo_commits, sdo_sleeps>>
    /\ UNCHANGED <<asmVars, runVars, toolVars, capVars, gsVars>>

RetryNext == SdoReturn \/ SdoRetry \/ SdoExhausted \/ SdoPropagate

(***************************************************************************)
(* summarize_old_messages (agent.py 62-71)                                 *)
(***************************************************************************)
Min(a, b) == IF a < b THEN a ELSE b

Max(a, b) == IF a > b THEN a ELSE b

\* Python's seq[:n]
PyFirst(seq, n) == SubSeq(seq, 1, Min(n, Len(seq)))

\* Python's seq[-n:]
PyLast(seq, n) == SubSeq(seq, Max(1, Len(seq) - n + 1), Len(seq))

\* a transcript of n turns, the first of them turn number `first`
Transcript(first, n) == [i \in 1..n |-> [turn |-> first + i - 1]]

\* summary.new_messages(): the k messages the summarizer run added, which
\* are new objects that describe the block they were given
SummaryMessages(block, k) == [i \in 1..k |-> [summary_of |-> block, part |-> i]]

\* mutants of the two slices
RecentMessages_Four(messages) == PyLast(messages, KeepRecent - 1)

\* `if len(messages) > 15`
NeedsTrim(messages) == Len(messages) > TrimThreshold

\* oldest_messages = messages[:10]
OldestMessages(messages) == PyFirst(messages, OldestBlock)

\* messages[-5:]
RecentMessages(messages) == PyLast(messages, KeepRecent)

AsmParked ==
    /\ asm_pc = "returned"
    /\ asm_messages = <<>>
    /\ asm_result = <<>>

AsmInit ==
    /\ asm_pc = "call"
    /\ \E n \in 0..MaxTurns, first \in 1..MaxFirstTurn :
            asm_messages = Transcript(first, n)
    /\ asm_result = <<>>

\* at most 15 messages: `return messages`
AsmReturnUntrimmed ==
    /\ asm_pc = "call"
    /\ ~NeedsTrim(asm_messages)
    /\ asm_result' = asm_messages
    /\ asm_pc' = "returned"
    /\ UNCHANGED asm_messages
    /\ UNCHANGED <<retryVars, runVars, toolVars, capVars, gsVars>>

\* more than 15: the summarizer run succeeds
AsmSummarize ==
    /\ asm_pc = "call"
    /\ NeedsTrim(asm_messages)
    /\ \E k \in 1..MaxSummaryMsgs :
          asm_result' = SummaryMessages(OldestMessages(asm_messages), k)
                            \o RecentMessages(asm_messages)
    /\ asm_pc' = "returned"
    /\ UNCHANGED asm_messages
    /\ UNCHANGED <<retryVars, runVars, toolVars, capVars, gsVars>>

\* more than 15: `await summarize_agent.run(...)` raises; nothing catches it
AsmSummarizerRaises ==
    /\ asm_pc = "call"
    /\ NeedsTrim(asm_messages)
    /\ asm_pc' = "raised"
    /\ UNCHANGED <<asm_messages, asm_result>>
    /\ UNCHANGED <<retryVars, runVars, toolVars, capVars, gsVars>>

AsmNext == AsmReturnUntrimmed \/ AsmSummarize \/ AsmSummarizerRaises

(***************************************************************************)
(* Text of the model and the CONVERSATION_UPDATE sentinel                  *)
(* (service.py 240-271).  A text is a sequence of tokens:                  *)
(*   "CU"  the word CONVERSATION_UPDATE        ":"  a colon                *)
(*   "w"   characters other than a colon       "N"  two digits, "00"       *)
(*   "D"   a date and hour, "2024-01-01T00"                                *)
(***************************************************************************)
FieldValues == {<<"w">>, <<"D">>, <<"N">>, <<"D", "w">>}

RECURSIVE JoinFields(_)
\* ":".join(fields)
JoinFields(fields) ==
    IF Len(fields) = 0 THEN <<>>
    ELSE IF Len(fields) = 1 THEN fields[1]
    ELSE fields[1] \o <<":">> \o JoinFields(Tail(fields))

FieldSeqs == UNION {[1..k -> FieldValues] : k \in 1..MaxFields}

\* outputs that start with the sentinel word, with 1..MaxFields fields after it
SentinelTexts == {JoinFields(<<<<"CU">>>> \o fs) : fs \in FieldSeqs}

\* outputs that do not start with it (the last holds a sentinel further in)
PlainTexts == {<<"w">>, <<"w", ":", "w">>,
               <<"w", "CU", ":", "w", ":", "w", ":", "D">>}

\* the model outputs explored in each scenario
Texts(sc) ==
    IF sc = "transport" THEN SentinelTexts \cup PlainTexts
    ELSE {<<"w">>, <<"w", "w">>}

\* text_piece.startswith("CONVERSATION_UPDATE:")
StartsWithSentinel(piece) == Len(piece) >= 2 /\ piece[1] = "CU" /\ piece[2] = ":"

HasColon(s) == \E i \in 1..Len(s) : s[i] = ":"

FirstColon(s) == CHOOSE i \in 1..Len(s) : s[i] = ":" /\ \A j \in 1..(i - 1) : s[j] # ":"

RECURSIVE PySplit(_, _)
\* Python's s.split(":", maxsplit)
PySplit(s, maxsplit) ==
    IF maxsplit = 0 \/ ~HasColon(s) THEN <<s>>
    ELSE <<SubSeq(s, 1, FirstColon(s) - 1)>>
             \o PySplit(SubSeq(s, FirstColon(s) + 1, Len(s)), maxsplit - 1)

\* datetime.fromisoformat accepts the date-and-hour, with minutes, with seconds
IsIsoDatetime(s) ==
    s \in {<<"D">>, <<"D", ":", "N">>, <<"D", ":", "N", ":", "N">>}

\* text_piece.split(":", 3)
UpdateParts(piece) == PySplit(piece, MaxSplit)

\* the 4-name unpacking and fromisoformat both succeed (lines 245-254)
ParsesAsUpdate(piece) ==
    /\ Len(UpdateParts(piece)) = MaxSplit + 1
    /\ IsIsoDatetime(UpdateParts(piece)[MaxSplit + 1])

\* ConversationUpdateMessage(...).model_dump_json(); `src` is not on the wire,
\* it records the piece (by its length) the frame was produced for
ControlFrame(piece) ==
    [type |-> "conversation_update",
     conversation_id |-> UpdateParts(piece)[2],
     summary |-> UpdateParts(piece)[3],
     updated_at |-> UpdateParts(piece)[4],
     src |-> Len(piece)]

\* ChatMessage(role=..., content=...).model_dump_json()
MessageFrame(role, content, src) ==
    [type |-> "message", role |-> role, content |-> content, src |-> src]

\* mutant: a malformed sentinel is dropped instead of forwarded
FramesFor_DropsMalformed(piece) ==
    IF StartsWithSentinel(piece)
    THEN IF ParsesAsUpdate(piece) THEN <<ControlFrame(piece)>> ELSE <<>>
    ELSE <<MessageFrame("model", piece, Len(piece))>>

\* what the loop body yields for one text_piece (lines 242-271)
FramesFor(piece) ==
    IF StartsWithSentinel(piece) /\ ParsesAsUpdate(piece)
    THEN <<ControlFrame(piece)>>
    ELSE <<MessageFrame("model", piece, Len(piece))>>

\* the fixed text of the error frame (lines 298-302); "e" is no token of a text
ErrorFrame == MessageFrame("model", <<"e">>, 0)

(***************************************************************************)
(* The exception handlers of the streamer (service.py 272-305, 320-323)    *)
(***************************************************************************)
\* the classes named by the first except clause (lines 272-278)
DisconnectErrors ==
    {"BrokenPipeError", "ConnectionResetError", "OSError", "CancelledError", "HTTPError"}

\* BaseExceptions that are no Exception: `except Exception` lets them through
NotAnException == {"GeneratorExit", "CancelledError", "KeyboardInterrupt"}

\* mutant: CancelledError is missing from the first except clause
InnerHandler_NoCancelled(exc) ==
    IF exc \in DisconnectErrors \ {"CancelledError"} THEN "return"
    ELSE IF exc \notin NotAnException THEN "error_frame"
    ELSE "propagate"

\* which clause of the inner try takes an exception raised inside it
InnerHandler(exc) ==
    IF exc \in DisconnectErrors THEN "return"
    ELSE IF exc \notin NotAnException THEN "error_frame"
    ELSE "propagate"

\* how the generator ends when an exception leaves the inner try:
\* GeneratorExit closes it, anything else is raised out of the stream
PropagateOutcome(exc) == IF exc = "GeneratorExit" THEN "closed" ELSE "raised"

\* mutant: the error handler lacks its `return` and runs on to store_message
HandlerReturns_ErrorFallsThrough(handler) == handler # "error_frame"

\* both handlers end with `return` (lines 280 and 305)
HandlerReturns(handler) == handler \in {"return", "error_frame"}

\* how a client disconnect reaches the generator: GeneratorExit while it is
\* suspended at a yield, CancelledError while it awaits the agent
DisconnectSignals(pc, nyielded) ==
    IF pc = "load" THEN {"GeneratorExit"}
    ELSE IF pc = "stream" /\ nyielded > 0 THEN {"GeneratorExit", "CancelledError"}
    ELSE {"CancelledError"}

(***************************************************************************)
(* The tools of the manager agent that touch the database (agent.py)       *)
(***************************************************************************)
ToolNames == {"meme_image_generation", "meme_image_modification",
              "summarise_request", "favourite_meme_in_db"}

\* create_user_meme: a new row, newest by created_at; `run` and `late` are
\* not columns, they record the run whose tool call wrote the row and whether
\* that run had already been cut off when the row was committed
NewMeme(memes, run, late) ==
    Append(memes, [handle |-> Len(memes) + 1, favourite |-> FALSE,
                   run |-> run, late |-> late])

\* update_user_meme(is_favorite=True) on read_latest_conversation_meme
FavouriteLatest(memes) ==
    IF Len(memes) = 0 THEN memes
    ELSE [memes EXCEPT ![Len(memes)].favourite = TRUE]

\* the UserMeme rows after tool `t` has committed
MemesAfter(t, memes, run, late) ==
    IF t \in {"meme_image_generation", "meme_image_modification"}
    THEN NewMeme(memes, run, late)
    ELSE IF t = "favourite_meme_in_db" THEN FavouriteLatest(memes)
    ELSE memes

\* Conversation.summary after tool `t` has committed
SummaryAfter(t, summary) == IF t = "summarise_request" THEN summary + 1 ELSE summary

\* result.new_messages_json(): what the run added to the conversation
\* (as messages: the user's request, a request/return pair per tool call, and
\* the final response)
Segment(run, ntools, txt) == [run |-> run, text |-> txt, turns |-> 2 + 2 * ntools]

\* mutant: the disconnect handler stores the transcript before it returns
AfterDisconnect_Stores(messages, segment) == Append(messages, segment)

\* the Message rows after the run was cut off: `return` skips store_message
AfterDisconnect(messages, segment) == messages

\* the rows of a query without ORDER BY come in any order
Orderings(rows) ==
    {[i \in 1..Len(rows) |-> rows[p[i]]] :
        p \in {q \in [1..Len(rows) -> 1..Len(rows)] :
                  \A i, j \in 1..Len(rows) : i # j => q[i] # q[j]}}

(***************************************************************************)
(* chat_stream.streamer (service.py 189-323)                               *)
(***************************************************************************)
NoDetached == {}

\* the calls of run r still working on the session handed to them in Deps
SessionUsers(r) == {d \in detached : d.run = r}

\* runs explored per scenario: the transport scenario looks at one stream
RunsOf(sc) == IF sc \in {"transport", "validation"} THEN 1 ELSE MaxRuns

\* tool calls per run explored per scenario
ToolLimit(sc) == IF sc = "validation" THEN MaxToolCalls + 1 ELSE MaxToolCalls

\* Agent(...) is built without `retries`: the library's default of one retry
ToolRetries == 1

\* mutant: the first failure already uses up the retries
RetriesExceeded_AtOnce(failures) == failures >= 1

\* a tool may fail ToolRetries times in a row and be asked again
RetriesExceeded(failures) == failures > ToolRetries

\* a Message row stored by an earlier run, the i-th of the conversation
StoredRow(i, turns) == [run |-> 0 - i, text |-> <<"w">>, turns |-> turns]

\* sizes of the stored rows explored: a plain exchange, and a run long enough
\* to exceed the trimming threshold on its own
StoredRowTurns == {2, TrimThreshold + 1}

\* the Message rows a conversation starts with in each scenario
StoredTranscripts(sc) ==
    IF sc = "history"
    THEN UNION {{[i \in 1..k |-> StoredRow(i, size[i])] : size \in [1..k -> StoredRowTurns]} :
                   k \in 0..MaxStoredRows}
    ELSE {<<>>}

RECURSIVE Turns(_)
\* number of messages in a list of rows: what history.extend(...) builds
Turns(rows) == IF Len(rows) = 0 THEN 0 ELSE rows[1].turns + Turns(Tail(rows))

LastCut == IF Len(cuts) = 0 THEN 0 ELSE cuts[Len(cuts)]

dbVars == <<db_messages, db_memes, db_summary>>

RunParked ==
    /\ scenario = "none"
    /\ run_pc = "parked"
    /\ run_no = 0
    /\ run_outcome = "none"
    /\ run_cause = "none"
    /\ run_session = "none"
    /\ frames = <<>>
    /\ history = <<>>
    /\ text = <<>>
    /\ cuts = <<>>
    /\ tool_inflight = "none"
    /\ tools_called = 0
    /\ tool_failures = 0
    /\ detached = NoDetached
    /\ db_messages = <<>>
    /\ db_memes = <<>>
    /\ db_summary = 0

\* a conversation that exists, with no memes and no summary yet
RunInit(sc) ==
    /\ scenario = sc
    /\ run_pc = "idle"
    /\ run_no = 0
    /\ run_outcome = "none"
    /\ run_cause = "none"
    /\ run_session = "none"
    /\ frames = <<>>
    /\ history = <<>>
    /\ text = <<>>
    /\ cuts = <<>>
    /\ tool_inflight = "none"
    /\ tools_called = 0
    /\ tool_failures = 0
    /\ detached = NoDetached
    /\ db_messages \in StoredTranscripts(sc)
    /\ db_memes = <<>>
    /\ db_summary = 0

\* chat_stream is called and the generator runs to its first yield: the
\* user's own message (lines 190-195)
StartRun ==
    /\ run_pc \in {"idle", "done"}
    /\ run_no < RunsOf(scenario)
    /\ run_no' = run_no + 1
    /\ run_pc' = "load"
    /\ run_outcome' = "none"
    /\ run_cause' = "none"
    /\ run_session' = "none"
    /\ frames' = <<MessageFrame("user", <<"p">>, 0)>>
    /\ history' = <<>>
    /\ text' = <<>>
    /\ cuts' = <<>>
    /\ tool_inflight' = "none"
    /\ tools_called' = 0
    /\ tool_failures' = 0
    /\ UNCHANGED <<scenario, detached, dbVars>>
    /\ UNCHANGED <<retryVars, asmVars, toolVars, capVars, gsVars>>

\* the session is opened, the user and the stored rows are read (200-217)
LoadHistory ==
    /\ run_pc = "load"
    /\ run_session' = "open"
    /\ history' \in Orderings(db_messages)
    /\ run_pc' = "agent"
    /\ UNCHANGED <<scenario, run_no, run_outcome, run_cause, frames, text, cuts,
                   tool_inflight, tools_called, tool_failures, detached, dbVars>>
    /\ UNCHANGED <<retryVars, asmVars, toolVars, capVars, gsVars>>

\* reading fails (user gone, database error): rollback and `raise` (320-323)
LoadFails ==
    /\ run_pc = "load"
    /\ run_session' = "closed"
    /\ run_pc' = "done"
    /\ run_outcome' = "raised"
    /\ run_cause' = "failure"
    /\ UNCHANGED <<scenario, run_no, frames, history, text, cuts,
                   tool_inflight, tools_called, tool_failures, detached, dbVars>>
    /\ UNCHANGED <<retryVars, asmVars, toolVars, capVars, gsVars>>

\* the model asks for a tool; the agent awaits it
ModelCallsTool ==
    /\ run_pc = "agent"
    /\ tools_called < ToolLimit(scenario)
    /\ \E t \in ToolNames : tool_inflight' = t
    /\ tools_called' = tools_called + 1
    /\ run_pc' = "tool"
    /\ UNCHANGED <<scenario, run_no, run_outcome, run_cause, run_session, frames,
                   history, text, cuts, tool_failures, detached, dbVars>>
    /\ UNCHANGED <<retryVars, asmVars, toolVars, capVars, gsVars>>

\* the tool commits what it writes and returns its result to the model
ToolReturns ==
    /\ run_pc = "tool"
    /\ db_memes' = MemesAfter(tool_inflight, db_memes, run_no, FALSE)
    /\ db_summary' = SummaryAfter(tool_inflight, db_summary)
    /\ tool_inflight' = "none"
    /\ tool_failures' = 0
    /\ run_pc' = "agent"
    /\ UNCHANGED <<scenario, run_no, run_outcome, run_cause, run_session, frames,
                   history, text, cuts, tools_called, detached, db_messages>>
    /\ UNCHANGED <<retryVars, asmVars, toolVars, capVars, gsVars>>

\* an exception `exc` is raised inside the inner try (lines 230-305)
EndInner(exc) ==
    /\ frames' = IF InnerHandler(exc) = "error_frame"
                 THEN Append(frames, ErrorFrame) ELSE frames
    /\ db_messages' = IF InnerHandler(exc) = "return"
                      THEN AfterDisconnect(db_messages, Segment(run_no, tools_called, text))
                      ELSE db_messages
    /\ IF InnerHandler(exc) = "propagate" \/ HandlerReturns(InnerHandler(exc))
       THEN /\ run_pc' = "done"
            /\ run_session' = "closed"
            /\ run_outcome' = IF InnerHandler(exc) = "return" THEN "returned"
                              ELSE IF InnerHandler(exc) = "error_frame" THEN "error_frame"
                              ELSE PropagateOutcome(exc)
       ELSE /\ run_pc' = "store"
            /\ UNCHANGED <<run_session, run_outcome>>

\* a tool call ends in a retry prompt for the model: no frame is produced and
\* the model is asked again, unless the retries are used up; then the agent
\* raises UnexpectedModelBehavior inside the inner try
RetryPrompt ==
    /\ tool_failures' = tool_failures + 1
    /\ IF RetriesExceeded(tool_failures + 1)
       THEN /\ EndInner("UnexpectedModelBehavior")
            /\ run_cause' = "tool_retries"
       ELSE /\ run_pc' = "agent"
            /\ UNCHANGED <<frames, db_messages, run_session, run_outcome, run_cause>>

\* the tool raises ModelRetry: nothing written
ToolAsksRetry ==
    /\ run_pc = "tool"
    /\ tool_inflight' = "none"
    /\ RetryPrompt
    /\ UNCHANGED <<scenario, run_no, history, text, cuts, tools_called, detached,
                   db_memes, db_summary>>
    /\ UNCHANGED <<retryVars, asmVars, toolVars, capVars, gsVars>>

\* the arguments of a tool call fail validation against the tool's schema:
\* the tool function is not called
ToolArgsInvalid ==
    /\ run_pc = "agent"
    /\ tools_called < ToolLimit(scenario)
    /\ tools_called' = tools_called + 1
    /\ RetryPrompt
    /\ UNCHANGED <<scenario, run_no, history, text, cuts, tool_inflight, detached,
                   db_memes, db_summary>>
    /\ UNCHANGED <<retryVars, asmVars, toolVars, capVars, gsVars>>

\* the model's final response: its text is then streamed
ModelAnswers ==
    /\ run_pc = "agent"
    /\ text' \in Texts(scenario)
    /\ run_pc' = "stream"
    /\ UNCHANGED <<scenario, run_no, run_outcome, run_cause, run_session, frames,
                   history, cuts, tool_inflight, tools_called, tool_failures, detached, dbVars>>
    /\ UNCHANGED <<retryVars, asmVars, toolVars, capVars, gsVars>>

\* one pass of `async for text_piece in result.stream_text(...)`: delta is
\* left at its default, so each piece is the whole text so far (line 240)
StreamPiece ==
    /\ run_pc = "stream"
    /\ LastCut < Len(text)
    /\ Len(cuts) < MaxPieces
    /\ \E n \in (LastCut + 1)..Len(text) :
          /\ (Len(cuts) = MaxPieces - 1) => (n = Len(text))
          /\ cuts' = Append(cuts, n)
          /\ frames' = frames \o FramesFor(SubSeq(text, 1, n))
    /\ UNCHANGED <<scenario, run_pc, run_no, run_outcome, run_cause, run_session,
                   history, text, tool_inflight, tools_called, tool_failures, detached, dbVars>>
    /\ UNCHANGED <<retryVars, asmVars, toolVars, capVars, gsVars>>

\* the stream is exhausted (or, were a handler to fall through, run_pc is
\* "store")
AtStore == run_pc = "store" \/ (run_pc = "stream" /\ Len(cuts) > 0 /\ LastCut = Len(text))

\* mutant: the conversation keeps one row, which each run overwrites
StoreMessage_Overwrites(messages, segment) ==
    IF Len(messages) = 0 THEN <<segment>>
    ELSE [messages EXCEPT ![Len(messages)] = segment]

\* store_message (lines 152-168): a new MessageEntity row is added and
\* committed; no existing row is touched
StoreMessage(messages, segment) == Append(messages, segment)

\* store_message and commit (lines 307-318)
StoreTranscript ==
    /\ AtStore
    /\ db_messages' = StoreMessage(db_messages, Segment(run_no, tools_called, text))
    /\ run_pc' = "done"
    /\ run_outcome' = "completed"
    /\ run_session' = "closed"
    /\ UNCHANGED <<scenario, run_no, run_cause, frames, history, text, cuts,
                   tool_inflight, tools_called, tool_failures, detached, db_memes, db_summary>>
    /\ UNCHANGED <<retryVars, asmVars, toolVars, capVars, gsVars>>

\* store_message raises: rollback and `raise` (lines 320-323)
StoreFails ==
    /\ AtStore
    /\ run_pc' = "done"
    /\ run_outcome' = "raised"
    /\ run_cause' = "failure"
    /\ run_session' = "closed"
    /\ UNCHANGED <<scenario, run_no, frames, history, text, cuts,
                   tool_inflight, tools_called, tool_failures, detached, dbVars>>
    /\ UNCHANGED <<retryVars, asmVars, toolVars, capVars, gsVars>>

\* what a failing provider call, tool or agent step may raise: an Exception
\* of its own, or an OSError (a refused connection, a timeout)
FailureClasses == {"Exception", "OSError"}

\* the provider, the agent or a tool raises during the run
RunFails ==
    /\ run_pc \in {"agent", "tool", "stream"}
    /\ \E exc \in FailureClasses : EndInner(exc)
    /\ run_cause' = "failure"
    /\ tool_inflight' = "none"
    /\ UNCHANGED <<scenario, run_no, history, text, cuts, tools_called, tool_failures, detached,
                   db_memes, db_summary>>
    /\ UNCHANGED <<retryVars, asmVars, toolVars, capVars, gsVars>>

\* the client goes away while the generator is suspended at its first yield,
\* outside the try blocks: the generator is closed there
DisconnectAtFirstYield ==
    /\ run_pc = "load"
    /\ \E sig \in DisconnectSignals(run_pc, Len(cuts)) :
          run_outcome' = PropagateOutcome(sig)
    /\ run_pc' = "done"
    /\ run_cause' = "disconnect"
    /\ UNCHANGED <<scenario, run_no, run_session, frames, history, text, cuts,
                   tool_inflight, tools_called, tool_failures, detached, dbVars>>
    /\ UNCHANGED <<retryVars, asmVars, toolVars, capVars, gsVars>>

\* the client goes away during the run; a tool call in flight runs on in its
\* worker thread
ClientDisconnects ==
    /\ run_pc \in {"agent", "tool", "stream"}
    /\ \E sig \in DisconnectSignals(run_pc, Len(cuts)) : EndInner(sig)
    /\ run_cause' = "disconnect"
    /\ tool_inflight' = "none"
    /\ detached' = IF run_pc = "tool"
                   THEN detached \cup {[tool |-> tool_inflight, run |-> run_no]}
                   ELSE detached
    /\ UNCHANGED <<scenario, run_no, history, text, cuts, tools_called, tool_failures,
                   db_memes, db_summary>>
    /\ UNCHANGED <<retryVars, asmVars, toolVars, capVars, gsVars>>

\* the tool call left running commits what it writes
DetachedToolCommits ==
    /\ \E d \in detached :
          /\ db_memes' = MemesAfter(d.tool, db_memes, d.run, TRUE)
          /\ db_summary' = SummaryAfter(d.tool, db_summary)
          /\ detached' = detached \ {d}
    /\ UNCHANGED <<scenario, run_pc, run_no, run_outcome, run_cause, run_session,
                   frames, history, text, cuts, tool_inflight, tools_called, tool_failures, db_messages>>
    /\ UNCHANGED <<retryVars, asmVars, toolVars, capVars, gsVars>>

\* the tool call left running fails (provider error, session already closed)
DetachedToolFails ==
    /\ \E d \in detached : detached' = detached \ {d}
    /\ UNCHANGED <<scenario, run_pc, run_no, run_outcome, run_cause, run_session,
                   frames, history, text, cuts, tool_inflight, tools_called, tool_failures, dbVars>>
    /\ UNCHANGED <<retryVars, asmVars, toolVars, capVars, gsVars>>

RunNext ==
    \/ StartRun \/ LoadHistory \/ LoadFails
    \/ ModelCallsTool \/ ToolReturns \/ ToolAsksRetry \/ ToolArgsInvalid
    \/ ModelAnswers \/ StreamPiece
    \/ StoreTranscript \/ StoreFails
    \/ RunFails \/ DisconnectAtFirstYield \/ ClientDisconnects
    \/ DetachedToolCommits \/ DetachedToolFails

\* a run without tool calls and without failures
TransportNext ==
    StartRun \/ LoadHistory \/ ModelAnswers \/ StreamPiece \/ StoreTranscript

(***************************************************************************)
(* The tools as the manager agent dispatches them (agent.py 227-903)       *)
(***************************************************************************)
\* the providers image_generation and modify_image route to (lines 244-249,
\* 463-468); "other" stands for any other provider name
ConfiguredProviders == {"openai", "gemini"}

Providers == ConfiguredProviders \cup {"other"}

NoCall == [tool |-> "none", arg |-> 0]

NoToolResult == [kind |-> "none", handle |-> 0, why |-> "none", count |-> 0]

\* a response id no provider knows, and one the provider issued outside this
\* conversation; the ids issued in this conversation are 1..tl_issued
UnknownHandle == 0 - 1

ForeignHandle == 0

\* the response_id arguments explored for meme_image_modification
HandleArgs(issued) == {UnknownHandle, ForeignHandle} \cup 1..issued

\* the tool calls one model response can hold
ToolCalls(issued) ==
    {[tool |-> t, arg |-> 0] :
        t \in {"meme_image_generation", "fetch_previous_image_id",
               "favourite_meme_in_db", "meme_theme_factory"}}
    \cup {[tool |-> "meme_image_modification", arg |-> h] : h \in HandleArgs(issued)}

\* the responses explored: 1..MaxBatch different tool calls
Batches(issued) ==
    {b \in SUBSET ToolCalls(issued) : Cardinality(b) >= 1 /\ Cardinality(b) <= MaxBatch}

\* create_user_meme: the row gets the provider's response id; rows are kept
\* in created_at order
CreateUserMeme(memes, handle) ==
    Append(memes, [id |-> Len(memes) + 1, handle |-> handle, favourite |-> FALSE])

HasMemes(memes) == Len(memes) > 0

\* mutant: the oldest row is read instead of the newest
ReadLatest_Oldest(memes) == memes[1]

\* read_latest_conversation_meme: order_by(created_at.desc()).first()
ReadLatest(memes) == memes[Len(memes)]

\* previous_response_id is accepted by OpenAI when it names a stored response
ProviderKnows(issued, h) == h = ForeignHandle \/ h \in 1..issued

\* find_previous_meme_operation of _modify_image_gemini (lines 554-566)
IsLatestHandle(memes, h) == HasMemes(memes) /\ ReadLatest(memes).handle = h

\* raise ModelRetry(...): sent back to the model as a retry prompt
RetryResult(why) == [kind |-> "ModelRetry", handle |-> 0, why |-> why, count |-> 0]

\* any other exception leaving the tool function
RaisedResult(exc) == [kind |-> exc, handle |-> 0, why |-> "none", count |-> 0]

\* ImageResult(image_id=..., url=..., response_id=response.id)
ImageResult(handle) == [kind |-> "ImageResult", handle |-> handle, why |-> "none", count |-> 0]

\* a string returned to the model
ReturnResult(why) == [kind |-> "return", handle |-> 0, why |-> why, count |-> 0]

ToolEnd(memes, issued, result, calls) ==
    [memes |-> memes, issued |-> issued, result |-> result, calls |-> calls]

\* the provider call, the upload and create_user_meme, shared by
\* _generate_image_* and _modify_image_* (e.g. lines 269-319); `calls` counts
\* the database operations the tool has wrapped so far
ProviderAndStore(memes, issued, calls) ==
    {ToolEnd(CreateUserMeme(memes, issued + 1), issued + 1, ImageResult(issued + 1), calls + 1),
     ToolEnd(memes, issued, RetryResult("provider"), calls),
     ToolEnd(memes, issued + 1, RaisedResult("Exception"), calls)}

\* mutant: an unsupported provider falls back to a supported one
GenerationEnds_AnyProvider(provider, memes, issued) == ProviderAndStore(memes, issued, 0)

\* image_generation (lines 227-249)
GenerationEnds(provider, memes, issued) ==
    IF provider \notin ConfiguredProviders
    THEN {ToolEnd(memes, issued, RaisedResult("ValueError"), 0)}
    ELSE ProviderAndStore(memes, issued, 0)

\* modify_image (lines 446-468), _modify_image_openai (471-534) and
\* _modify_image_gemini (537-663) called with response_id h
ModificationEnds(provider, memes, issued, h) ==
    IF provider = "openai"
    THEN IF ProviderKnows(issued, h)
         THEN ProviderAndStore(memes, issued, 0)
         ELSE {ToolEnd(memes, issued, RetryResult("provider"), 0)}
    ELSE IF provider = "gemini"
    THEN IF IsLatestHandle(memes, h)
         THEN ProviderAndStore(memes, issued, 1)
         ELSE {ToolEnd(memes, issued, RetryResult("stale"), 1)}
    ELSE {ToolEnd(memes, issued, RaisedResult("ValueError"), 0)}

\* fetch_previous_image_id (lines 850-873)
FetchEnds(memes, issued) ==
    IF HasMemes(memes)
    THEN {ToolEnd(memes, issued,
                  [kind |-> "handle", handle |-> ReadLatest(memes).handle,
                   why |-> "none", count |-> 0], 1)}
    ELSE {ToolEnd(memes, issued, RetryResult("none_yet"), 1)}

\* what mark_meme_as_favourite_operation does when invoked (lines 820-836)
FavouriteOperation(memes) == IF HasMemes(memes) THEN "ok" ELSE "HTTPException"

\* invocations safe_db_operation makes of an operation that ends the same
\* way each time
WrapperCalls(outcome) == IF IsTransient(outcome) THEN DefaultMaxRetries ELSE 1

\* mutant: the 404 is not caught and leaves the tool as an exception
FavouriteResult_Raises(outcome) ==
    IF outcome = "ok" THEN ReturnResult("marked") ELSE RaisedResult(outcome)

\* the try/except around the wrapper (lines 819, 841-847); the only
\* HTTPException the operation raises here is the 404
FavouriteResult(outcome) ==
    IF outcome = "ok" THEN ReturnResult("marked")
    ELSE IF outcome = "HTTPException" THEN ReturnResult("none_found")
    ELSE RaisedResult(outcome)

\* update_user_meme(is_favorite=True) on the newest row
MarkLatest(memes) ==
    IF HasMemes(memes) THEN [memes EXCEPT ![Len(memes)].favourite = TRUE] ELSE memes

\* favourite_meme_in_db (lines 814-847)
FavouriteEnds(memes, issued) ==
    {ToolEnd(MarkLatest(memes), issued, FavouriteResult(FavouriteOperation(memes)),
             WrapperCalls(FavouriteOperation(memes)))}

\* output_type=MemeCaptionAndContext: the theme agent's output is one object
VariantsReturned == 1

\* meme_theme_factory (lines 709-716): r.output, or the sub-agent's exception
CaptionsEnds(memes, issued) ==
    {ToolEnd(memes, issued,
             [kind |-> "captions", handle |-> 0, why |-> "none", count |-> VariantsReturned], 0),
     ToolEnd(memes, issued, RaisedResult("Exception"), 0)}

ToolsParked ==
    /\ tl_agent = "none"
    /\ tl_urgent = FALSE
    /\ tl_searched = FALSE
    /\ tl_provider = "none"
    /\ tl_memes = <<>>
    /\ tl_issued = 0
    /\ tl_batches = 0
    /\ tl_active = {}
    /\ tl_done = NoCall
    /\ tl_before = <<>>
    /\ tl_result = NoToolResult
    /\ tl_calls = 0
    /\ tl_last_image = 0

\* a conversation without memes, under image provider settings `providers`;
\* `urgent`: the user's message holds time-sensitive words
ToolsStart(providers, urgent) ==
    /\ tl_agent = "none"
    /\ tl_urgent = urgent
    /\ tl_searched = FALSE
    /\ tl_provider \in providers
    /\ tl_memes = <<>>
    /\ tl_issued = 0
    /\ tl_batches = 0
    /\ tl_active = {}
    /\ tl_done = NoCall
    /\ tl_before = <<>>
    /\ tl_result = NoToolResult
    /\ tl_calls = 0
    /\ tl_last_image = 0

\* a conversation without memes, under any provider setting
ToolsInit == ToolsStart(Providers, FALSE)

\* the providers create_manager_agent builds a model for (lines 908-922)
ManagerProviders == {"openai", "anthropic"}

\* create_manager_agent(provider, model): the Agent, or the ValueError of the
\* else branch
CreateManagerAgent(provider) ==
    IF provider \in ManagerProviders THEN "agent" ELSE "ValueError"

\* the manager agent is built for the provider part of the model selector;
\* "other" stands for any other provider name
BuildManagerAgent ==
    /\ tl_agent = "none"
    /\ \E provider \in ManagerProviders \cup {"other"} :
          tl_agent' = CreateManagerAgent(provider)
    /\ UNCHANGED <<tl_urgent, tl_searched, tl_provider, tl_memes, tl_issued, tl_batches,
                   tl_active, tl_done, tl_before, tl_result, tl_calls, tl_last_image>>
    /\ UNCHANGED <<retryVars, asmVars, runVars, capVars, gsVars>>

\* the model's response holds tool calls; the agent dispatches all of them
\* before it awaits any (sync tools run in worker threads)
ModelRequestsTools ==
    /\ tl_agent = "agent"
    /\ tl_active = {}
    /\ tl_batches < MaxBatches
    /\ tl_active' \in Batches(tl_issued)
    /\ tl_batches' = tl_batches + 1
    /\ UNCHANGED <<tl_agent, tl_urgent, tl_searched, tl_provider, tl_memes, tl_issued,
                   tl_done, tl_before, tl_result, tl_calls, tl_last_image>>
    /\ UNCHANGED <<retryVars, asmVars, runVars, capVars, gsVars>>

\* dispatched tool call c runs to its end, in one of the ways `ends`
EndCall(c, ends) ==
    /\ \E e \in ends :
          /\ tl_memes' = e.memes
          /\ tl_issued' = e.issued
          /\ tl_result' = e.result
          /\ tl_calls' = e.calls
          /\ tl_last_image' = IF e.result.kind = "ImageResult" THEN e.result.handle
                              ELSE tl_last_image
    /\ tl_active' = tl_active \ {c}
    /\ tl_done' = c
    /\ tl_before' = tl_memes
    /\ UNCHANGED <<tl_agent, tl_urgent, tl_searched, tl_provider, tl_batches>>
    /\ UNCHANGED <<retryVars, asmVars, runVars, capVars, gsVars>>

\* meme_image_generation (lines 719-763)
MemeImageGeneration ==
    \E c \in tl_active :
       /\ c.tool = "meme_image_generation"
       /\ EndCall(c, GenerationEnds(tl_provider, tl_memes, tl_issued))

\* meme_image_modification (lines 766-791)
MemeImageModification ==
    \E c \in tl_active :
       /\ c.tool = "meme_image_modification"
       /\ EndCall(c, ModificationEnds(tl_provider, tl_memes, tl_issued, c.arg))

FetchPreviousImageId ==
    \E c \in tl_active :
       /\ c.tool = "fetch_previous_image_id"
       /\ EndCall(c, FetchEnds(tl_memes, tl_issued))

FavouriteMemeInDb ==
    \E c \in tl_active :
       /\ c.tool = "favourite_meme_in_db"
       /\ EndCall(c, FavouriteEnds(tl_memes, tl_issued))

MemeThemeFactory ==
    \E c \in tl_active :
       /\ c.tool = "meme_theme_factory"
       /\ EndCall(c, CaptionsEnds(tl_memes, tl_issued))

\* the model uses the built-in web search of its settings (lines 909-918):
\* the provider runs it inside the model request, no tool of `tools` is called
WebSearch ==
    /\ tl_agent = "agent"
    /\ tl_active = {}
    /\ ~tl_searched
    /\ tl_searched' = TRUE
    /\ UNCHANGED <<tl_agent, tl_urgent, tl_provider, tl_memes, tl_issued, tl_batches,
                   tl_active, tl_done, tl_before, tl_result, tl_calls, tl_last_image>>
    /\ UNCHANGED <<retryVars, asmVars, runVars, capVars, gsVars>>

ToolsNext ==
    \/ BuildManagerAgent
    \/ ModelRequestsTools
    \/ MemeImageGeneration \/ MemeImageModification
    \/ FetchPreviousImageId \/ FavouriteMemeInDb \/ MemeThemeFactory

(***************************************************************************)
(* Caption requests and their variants (features/caption_requests,         *)
(* features/caption_variants, entities/caption_*.py)                       *)
(***************************************************************************)
Users == {"u1", "u2"}

\* what the database does when a referenced row is deleted.  request_id of
\* a variant is declared ON DELETE CASCADE; chosen_variant_id of a request
\* gets its `ondelete` through sa_column_kwargs, which may or may not reach
\* the constraint; an engine that does not enforce foreign keys does neither
FkModes == {"off", "cascade", "no_action"}

RequestWithId(requests, rid) == {r \in requests : r.id = rid}

VariantWithId(variants, vid) == {v \in variants : v.id = vid}

Ids(rows) == {row.id : row \in rows}

\* the variants that reference one of `requests`
VariantsOf(variants, requests) == {v \in variants : v.request \in Ids(requests)}

\* the requests whose chosen_variant_id references one of `variants`
ChosenBy(requests, variants) == {r \in requests : r.chosen \in Ids(variants)}

RECURSIVE CascadeClosure(_, _, _, _)
\* the rows ON DELETE CASCADE removes along both foreign keys when the rows
\* dr (requests) and dv (variants) are deleted
CascadeClosure(requests, variants, dr, dv) ==
    IF VariantsOf(variants, dr) \subseteq dv /\ ChosenBy(requests, dv) \subseteq dr
    THEN [requests |-> dr, variants |-> dv]
    ELSE CascadeClosure(requests, variants,
                        dr \cup ChosenBy(requests, dv \cup VariantsOf(variants, dr)),
                        dv \cup VariantsOf(variants, dr))

\* the rows a DELETE of dr and dv removes under foreign-key mode fk
Removed(fk, requests, variants, dr, dv) ==
    IF fk = "off" THEN [requests |-> dr, variants |-> dv]
    ELSE IF fk = "cascade" THEN CascadeClosure(requests, variants, dr, dv)
    ELSE [requests |-> dr, variants |-> dv \cup VariantsOf(variants, dr)]

\* the commit fails with an IntegrityError: a remaining request would
\* reference a removed variant
DeleteRejected(fk, requests, variants, dr, dv) ==
    /\ fk = "no_action"
    /\ ChosenBy(requests \ dr, Removed(fk, requests, variants, dr, dv).variants) # {}

\* read_caption_request (caption_requests/service.py 48-64)
ReadCaptionRequest(requests, user, rid) ==
    IF RequestWithId(requests, rid) = {} THEN 404
    ELSE IF \E r \in RequestWithId(requests, rid) : r.owner # user THEN 403
    ELSE 200

\* mutant: every variant row is listed, without the join on the request
ListCaptionVariants_NoJoin(requests, variants, user) == variants

\* list_caption_variants (caption_variants/service.py 139-150): the variants
\* joined with a request of the user
ListCaptionVariants(requests, variants, user) ==
    {v \in variants : \E r \in requests : r.id = v.request /\ r.owner = user}

CaptionsParked ==
    /\ cap_fk = "off"
    /\ cap_requests = {}
    /\ cap_variants = {}
    /\ cap_made = [requests |-> 0, variants |-> 0]
    /\ cap_gone = {}

\* empty tables, under any of the foreign-key modes.  The actions below are
\* the requests that change rows; a request answered with an error status
\* (or rejected by the database at commit) leaves the tables as they are
CaptionsInit ==
    /\ cap_fk \in FkModes
    /\ cap_requests = {}
    /\ cap_variants = {}
    /\ cap_made = [requests |-> 0, variants |-> 0]
    /\ cap_gone = {}

\* create_caption_request (caption_requests/service.py 18-45), with a valid
\* payload
CreateCaptionRequest ==
    /\ cap_made.requests < MaxRequests
    /\ \E user \in Users :
          cap_requests' = cap_requests \cup
              {[id |-> cap_made.requests + 1, owner |-> user, chosen |-> 0]}
    /\ cap_made' = [cap_made EXCEPT !.requests = @ + 1]
    /\ UNCHANGED <<cap_fk, cap_variants, cap_gone>>
    /\ UNCHANGED <<retryVars, asmVars, runVars, toolVars, gsVars>>

\* create_caption_variant (caption_variants/service.py 16-89), with a valid
\* payload but for request_id: 404 unless the request is one of the user's
CreateCaptionVariant ==
    /\ cap_made.variants < MaxVariants
    /\ \E user \in Users, rid \in 1..MaxRequests :
          /\ \E r \in RequestWithId(cap_requests, rid) : r.owner = user
          /\ cap_variants' = cap_variants \cup
                {[id |-> cap_made.variants + 1, request |-> rid]}
    /\ cap_made' = [cap_made EXCEPT !.variants = @ + 1]
    /\ UNCHANGED <<cap_fk, cap_requests, cap_gone>>
    /\ UNCHANGED <<retryVars, asmVars, runVars, toolVars, gsVars>>

\* update_caption_request (caption_requests/service.py 67-125) setting
\* chosen_variant_id: 404 or 403 as for a read; the variant only has to exist
UpdateCaptionRequest ==
    /\ \E user \in Users, rid \in 1..MaxRequests, vid \in 1..MaxVariants :
          /\ ReadCaptionRequest(cap_requests, user, rid) = 200
          /\ VariantWithId(cap_variants, vid) # {}
          /\ cap_requests' =
                {IF r.id = rid THEN [r EXCEPT !.chosen = vid] ELSE r : r \in cap_requests}
    /\ UNCHANGED <<cap_fk, cap_variants, cap_made, cap_gone>>
    /\ UNCHANGED <<retryVars, asmVars, runVars, toolVars, gsVars>>

\* delete_caption_request (caption_requests/service.py 128-147): 404 or 403
\* as for a read, else session.delete(cr); session.commit()
DeleteCaptionRequest ==
    /\ \E user \in Users, rid \in 1..MaxRequests :
          /\ ReadCaptionRequest(cap_requests, user, rid) = 200
          /\ ~DeleteRejected(cap_fk, cap_requests, cap_variants,
                             RequestWithId(cap_requests, rid), {})
          /\ cap_requests' = cap_requests \
                Removed(cap_fk, cap_requests, cap_variants,
                        RequestWithId(cap_requests, rid), {}).requests
          /\ cap_variants' = cap_variants \
                Removed(cap_fk, cap_requests, cap_variants,
                        RequestWithId(cap_requests, rid), {}).variants
          /\ cap_gone' = cap_gone \cup
                {[id |-> rid, owner |-> user,
                  had |-> Cardinality(VariantsOf(cap_variants,
                                         RequestWithId(cap_requests, rid)))]}
    /\ UNCHANGED <<cap_fk, cap_made>>
    /\ UNCHANGED <<retryVars, asmVars, runVars, toolVars, gsVars>>

\* delete_caption_variant (caption_variants/service.py 114-136): 404 unless
\* the variant joins with a request of the user
DeleteCaptionVariant ==
    /\ \E user \in Users, vid \in 1..MaxVariants :
          /\ VariantWithId(ListCaptionVariants(cap_requests, cap_variants, user), vid) # {}
          /\ ~DeleteRejected(cap_fk, cap_requests, cap_variants, {},
                             VariantWithId(cap_variants, vid))
          /\ cap_requests' = cap_requests \
                Removed(cap_fk, cap_requests, cap_variants, {},
                        VariantWithId(cap_variants, vid)).requests
          /\ cap_variants' = cap_variants \
                Removed(cap_fk, cap_requests, cap_variants, {},
                        VariantWithId(cap_variants, vid)).variants
    /\ UNCHANGED <<cap_fk, cap_made, cap_gone>>
    /\ UNCHANGED <<retryVars, asmVars, runVars, toolVars, gsVars>>

CaptionsNext ==
    \/ CreateCaptionRequest \/ CreateCaptionVariant \/ UpdateCaptionRequest
    \/ DeleteCaptionRequest \/ DeleteCaptionVariant

(***************************************************************************)
(* get_session and get_session_with_retry (database/core.py 47-90,         *)
(* 119-160), driven as a FastAPI dependency: the generator is resumed once *)
(* after its yield, normally or with the exception of the request body     *)
(***************************************************************************)
\* what the request body, or session.commit(), can raise
BodyErrors == {"OperationalError", "Exception", "CancelledError"}

\* Session(engine); `added` counts the rows the body added to the session
NewSession == [tx |-> "open", closed |-> FALSE, added |-> 0]

\* the session yielded last after `ending` (commit or rollback) and close
EndSession(sessions, ending) ==
    [sessions EXCEPT ![Len(sessions)] = [tx |-> ending, closed |-> TRUE, added |-> @.added]]

\* the rows session.commit() makes durable
Committed(sessions) == sessions[Len(sessions)].added

\* `except Exception as e: session.rollback(); raise e` does not take a
\* BaseException; `finally: session.close()` runs for all
InnerEnding(exc) == IF exc \in NotAnException THEN "open" ELSE "rolled_back"

\* `except OperationalError` around the inner try (lines 79-87): the
\* exception re-raised by the inner handler is caught here, and with retries
\* left the loop goes round again
OuterRetries(exc, retry, max_retries) ==
    IsTransient(exc) /\ retry + 1 < max_retries

SessionParked ==
    /\ gs_pc = "parked"
    /\ gs_max = 0
    /\ gs_retry = 0
    /\ gs_sessions = <<>>
    /\ gs_stored = 0
    /\ gs_sleeps = <<>>
    /\ gs_body = "none"
    /\ gs_outcome = "none"

\* get_session has max_retries = 3; get_session_with_retry takes it as its
\* argument
SessionInit ==
    /\ gs_pc = "loop"
    /\ gs_max \in 1..MaxAttempts
    /\ gs_retry = 0
    /\ gs_sessions = <<>>
    /\ gs_stored = 0
    /\ gs_sleeps = <<>>
    /\ gs_body = "none"
    /\ gs_outcome = "none"

\* `while retry_count < max_retries: session = Session(engine); yield session`.
\* The first yield hands the session to the request body; a later yield
\* answers the resumption that was to end the generator
GsYield ==
    /\ gs_pc = "loop"
    /\ gs_retry < gs_max
    /\ gs_sessions' = Append(gs_sessions, NewSession)
    /\ gs_pc' = IF Len(gs_sessions) = 0 THEN "body" ELSE "again"
    /\ UNCHANGED <<gs_max, gs_retry, gs_stored, gs_sleeps, gs_body, gs_outcome>>
    /\ UNCHANGED <<retryVars, asmVars, runVars, toolVars, capVars>>

\* the request body adds a row to the session it was given
BodyWrites ==
    /\ gs_pc = "body"
    /\ gs_sessions[1].added < MaxWrites
    /\ gs_sessions' = [gs_sessions EXCEPT ![1].added = @ + 1]
    /\ UNCHANGED <<gs_pc, gs_max, gs_retry, gs_stored, gs_sleeps, gs_body, gs_outcome>>
    /\ UNCHANGED <<retryVars, asmVars, runVars, toolVars, capVars>>

\* exception exc is raised inside the inner try (by the body at the yield,
\* or by session.commit())
GsHandle(exc) ==
    /\ gs_sessions' = EndSession(gs_sessions, InnerEnding(exc))
    /\ IF OuterRetries(exc, gs_retry, gs_max)
       THEN /\ gs_retry' = gs_retry + 1
            /\ gs_sleeps' = Append(gs_sleeps, gs_retry + 1)
            /\ gs_pc' = "loop"
            /\ UNCHANGED gs_outcome
       ELSE /\ gs_retry' = IF IsTransient(exc) THEN gs_retry + 1 ELSE gs_retry
            /\ gs_pc' = "done"
            /\ gs_outcome' = exc
            /\ UNCHANGED gs_sleeps

\* the body ends normally and the generator is resumed
BodySucceeds ==
    /\ gs_pc = "body"
    /\ gs_body' = "ok"
    /\ \/ /\ gs_sessions' = EndSession(gs_sessions, "committed")
          /\ gs_stored' = gs_stored + Committed(gs_sessions)
          /\ gs_pc' = "done"
          /\ gs_outcome' = "returned"
          /\ UNCHANGED <<gs_retry, gs_sleeps>>
       \/ /\ \E exc \in BodyErrors \ NotAnException : GsHandle(exc)
          /\ UNCHANGED gs_stored
    /\ UNCHANGED gs_max
    /\ UNCHANGED <<retryVars, asmVars, runVars, toolVars, capVars>>

\* the body raises and the exception is thrown into the generator
BodyRaises ==
    /\ gs_pc = "body"
    /\ \E exc \in BodyErrors :
          /\ gs_body' = exc
          /\ GsHandle(exc)
    /\ UNCHANGED <<gs_max, gs_stored>>
    /\ UNCHANGED <<retryVars, asmVars, runVars, toolVars, capVars>>

\* the generator has yielded where it had to end: the framework raises
\* RuntimeError and drops it; closing it runs `finally: session.close()`
GsDropped ==
    /\ gs_pc = "again"
    /\ gs_sessions' = EndSession(gs_sessions, "open")
    /\ gs_pc' = "done"
    /\ gs_outcome' = "RuntimeError"
    /\ UNCHANGED <<gs_max, gs_retry, gs_stored, gs_sleeps, gs_body>>
    /\ UNCHANGED <<retryVars, asmVars, runVars, toolVars, capVars>>

SessionNext == GsYield \/ BodyWrites \/ BodySucceeds \/ BodyRaises \/ GsDropped

(***************************************************************************)
(* Specifications                                                          *)
(***************************************************************************)
InitRetry == RetryInit /\ AsmParked /\ RunParked /\ ToolsParked /\ CaptionsParked /\ SessionParked

SpecRetry == InitRetry /\ [][RetryNext]_vars

InitAssemble == AsmInit /\ RetryParked /\ RunParked /\ ToolsParked /\ CaptionsParked /\ SessionParked

SpecAssemble == InitAssemble /\ [][AsmNext]_vars

InitRun == RunInit("run") /\ RetryParked /\ AsmParked /\ ToolsParked /\ CaptionsParked /\ SessionParked

SpecRun == InitRun /\ [][RunNext]_vars

InitValidation == RunInit("validation") /\ RetryParked /\ AsmParked /\ ToolsParked /\ CaptionsParked /\ SessionParked

SpecValidation == InitValidation /\ [][RunNext]_vars

InitTransport == RunInit("transport") /\ RetryParked /\ AsmParked /\ ToolsParked /\ CaptionsParked /\ SessionParked

SpecTransport == InitTransport /\ [][TransportNext]_vars

InitHistory == RunInit("history") /\ RetryParked /\ AsmParked /\ ToolsParked /\ CaptionsParked /\ SessionParked

SpecHistory == InitHistory /\ [][TransportNext]_vars

InitTools == ToolsInit /\ RetryParked /\ AsmParked /\ RunParked /\ CaptionsParked /\ SessionParked

InitCaptions == CaptionsInit /\ RetryParked /\ AsmParked /\ RunParked /\ ToolsParked /\ SessionParked

SpecCaptions == InitCaptions /\ [][CaptionsNext]_vars

InitSession ==
    SessionInit /\ RetryParked /\ AsmParked /\ RunParked /\ ToolsParked /\ CaptionsParked

SpecSession == InitSession /\ [][SessionNext]_vars

SpecTools == InitTools /\ [][ToolsNext]_vars

\* one run on a user message with time-sensitive words
InitLookup == ToolsStart({"openai"}, TRUE) /\ RetryParked /\ AsmParked /\ RunParked /\ CaptionsParked /\ SessionParked

LookupNext == ToolsNext \/ WebSearch

SpecLookup == InitLookup /\ [][LookupNext]_vars

(***************************************************************************)
(* Claims about safe_db_operation                                          *)
(***************************************************************************)
\* operation() raises OperationalError on its first k invocations
TransientFirst(k) == \A i \in 1..k : sdo_script[i] = "OperationalError"

SdoDone == sdo_pc \in {"returned", "raised"}

\* C1: an operation that raises a transient error on its first k < max_retries
\* invocations and then succeeds makes the wrapper return that success value
\* after exactly k+1 invocations (never more on the way there).
C1_RetryThenSuccess ==
    \A k \in 0..(sdo_max - 1) :
        (TransientFirst(k) /\ sdo_script[k + 1] = "ok") =>
            /\ sdo_calls <= k + 1
            /\ (sdo_pc = "try" => sdo_calls <= k)
            /\ SdoDone =>
                  /\ sdo_pc = "returned"
                  /\ sdo_calls = k + 1
                  /\ sdo_result = [kind |-> "value", at |-> k + 1]

\* C1 witness: the default wrapper returned after two transient failures
C1_Witness ==
    /\ sdo_max = DefaultMaxRetries
    /\ TransientFirst(2) /\ sdo_script[3] = "ok"
    /\ sdo_pc = "returned" /\ sdo_calls = 3

\* C2: an operation that raises a transient error on every invocation is
\* invoked exactly max_retries times and the wrapper then raises; it never
\* returns a value and never stops before the last attempt.
C2_AlwaysFailing ==
    TransientFirst(sdo_max) =>
        /\ sdo_calls <= sdo_max
        /\ sdo_pc # "returned"
        /\ (sdo_pc = "try" => sdo_calls < sdo_max)
        /\ (sdo_pc = "raised" => sdo_calls = sdo_max)

\* C2 witness: the default wrapper raised after its third invocation
C2_Witness ==
    /\ sdo_max = DefaultMaxRetries
    /\ TransientFirst(sdo_max)
    /\ sdo_pc = "raised" /\ sdo_calls = 3

\* C3 as stated: whenever a non-transient exception has propagated, the
\* operation has been invoked exactly once and no backoff sleep has happened,
\* on whichever attempt it occurred.
C3_Original ==
    (sdo_pc = "raised" /\ sdo_result.kind = "Exception") =>
        (sdo_calls = 1 /\ sdo_sleeps = <<>>)

\* C3 amended: a non-transient exception raised by the j-th invocation (after
\* j-1 transient failures) propagates at once: the wrapper raises that very
\* exception, the operation has been invoked exactly j times and only the
\* j-1 sleeps of the earlier transient failures have happened (so exactly
\* once and without any sleep when it is the first attempt).
C3_PropagatesImmediately ==
    \A j \in 1..sdo_max :
        (TransientFirst(j - 1) /\ sdo_script[j] = "Exception") =>
            /\ sdo_calls <= j
            /\ Len(sdo_sleeps) <= j - 1
            /\ (sdo_pc = "try" => sdo_calls < j)
            /\ SdoDone =>
                  /\ sdo_pc = "raised"
                  /\ sdo_result = [kind |-> "Exception", at |-> j]
                  /\ sdo_calls = j
                  /\ sdo_sleeps = [i \in 1..(j - 1) |-> i]

\* C3 witness: a non-transient exception on the second attempt has propagated
C3_Witness ==
    /\ sdo_max >= 2
    /\ sdo_script[1] = "OperationalError" /\ sdo_script[2] = "Exception"
    /\ sdo_pc = "raised" /\ sdo_calls = 2 /\ sdo_sleeps = <<1>>

\* C4 as stated: after max_retries consecutive transient failures the wrapper
\* fails with a distinguished error, one that is not the operation's own
\* transient error.
C4_Original ==
    (TransientFirst(sdo_max) /\ sdo_pc = "raised") =>
        sdo_result.kind # "OperationalError"

\* C4 amended: after max_retries consecutive transient failures the wrapper
\* re-raises the OperationalError of the last invocation unchanged; there is
\* no distinguished ExhaustedRetries error.
C4_ReraisesLastTransient ==
    (TransientFirst(sdo_max) /\ sdo_pc = "raised") =>
        sdo_result = [kind |-> "OperationalError", at |-> sdo_max]

\* C4 witness: the retries of the default wrapper are used up
C4_Witness ==
    /\ sdo_max = DefaultMaxRetries
    /\ TransientFirst(sdo_max)
    /\ sdo_pc = "raised"
    /\ sdo_result.kind = "OperationalError"

\* C28 (as stated): the database write of an image tool, create_user_meme
\* under safe_db_operation with the default max_retries, has added exactly
\* one row when the wrapper has returned (the tool then succeeds), retries
\* or not, and none when the wrapper has raised (the tool then fails)
C28_Original ==
    sdo_max = DefaultMaxRetries =>
        /\ sdo_pc = "returned" => sdo_rows = 1
        /\ sdo_pc = "raised" => sdo_rows = 0

(***************************************************************************)
(* Claims about summarize_old_messages                                     *)
(***************************************************************************)
\* C5: for every transcript of more than 15 turns the returned context ends
\* with the last 5 turns of the input, unchanged and in their original order.
C5_LastFiveVerbatim ==
    (asm_pc = "returned" /\ Len(asm_messages) > TrimThreshold) =>
        /\ Len(asm_result) >= KeepRecent
        /\ \A i \in 0..(KeepRecent - 1) :
              asm_result[Len(asm_result) - i] = asm_messages[Len(asm_messages) - i]

\* C5 witness: a transcript of 16 turns has been trimmed
C5_Witness ==
    /\ asm_pc = "returned"
    /\ Len(asm_messages) = TrimThreshold + 1
    /\ Len(asm_result) < Len(asm_messages)

\* the result holds the message m
InResult(m) == \E j \in 1..Len(asm_result) : asm_result[j] = m

\* C15: once an over-threshold transcript has been assembled, every turn of
\* the input after the first 10 is in the result, verbatim.
C15_Original ==
    (asm_pc = "returned" /\ NeedsTrim(asm_messages)) =>
        \A i \in (OldestBlock + 1)..Len(asm_messages) : InResult(asm_messages[i])

\* C16: a call on an over-threshold transcript never ends by raising: it
\* has returned, either the summary followed by the recent turns or, the
\* summarizer having failed, the input transcript unchanged.
C16_Original ==
    (NeedsTrim(asm_messages) /\ asm_pc # "call") =>
        /\ asm_pc = "returned"
        /\ \/ asm_result = asm_messages
           \/ \E k \in 1..MaxSummaryMsgs :
                 asm_result = SummaryMessages(OldestMessages(asm_messages), k)
                                  \o RecentMessages(asm_messages)

(***************************************************************************)
(* Claims about the frames of chat_stream.streamer                         *)
(***************************************************************************)
\* the i-th text_piece of the current stream
PieceAt(i) == SubSeq(text, 1, cuts[i])

WellFormedPiece(i) == StartsWithSentinel(PieceAt(i)) /\ ParsesAsUpdate(PieceAt(i))

MalformedPiece(i) == StartsWithSentinel(PieceAt(i)) /\ ~ParsesAsUpdate(PieceAt(i))

\* positions of the frames the client received for the piece of length n
FramesOf(n) == {k \in 1..Len(frames) : frames[k].src = n}

ControlFrames == {k \in 1..Len(frames) : frames[k].type = "conversation_update"}

StreamCompleted == run_pc = "done" /\ run_outcome = "completed"

\* C6: once a stream in which some chunk begins with a well-formed sentinel
\* has completed, the client has received exactly one control frame carrying
\* that chunk's conversation_id and no message frame whose content begins
\* with the raw sentinel.
C6_Original ==
    (StreamCompleted /\ \E i \in 1..Len(cuts) : WellFormedPiece(i)) =>
        /\ \A i \in 1..Len(cuts) :
              WellFormedPiece(i) =>
                 Cardinality({k \in ControlFrames :
                     frames[k].conversation_id = UpdateParts(PieceAt(i))[2]}) = 1
        /\ \A k \in 1..Len(frames) :
              frames[k].type = "message" => ~StartsWithSentinel(frames[k].content)

\* C7: every chunk that starts with the sentinel prefix but does not parse
\* (too few fields, or an updated_at that is no timestamp) has reached the
\* client as exactly one frame, a model-role message frame whose content is
\* the chunk; no control frame was made for it, and every chunk streamed
\* after it has produced its frame too.
C7_MalformedForwarded ==
    \A i \in 1..Len(cuts) :
        MalformedPiece(i) =>
            /\ Cardinality(FramesOf(cuts[i])) = 1
            /\ \A k \in FramesOf(cuts[i]) :
                  frames[k] = MessageFrame("model", PieceAt(i), cuts[i])
            /\ \A j \in (i + 1)..Len(cuts) : FramesOf(cuts[j]) # {}

\* C7 witness: a chunk with four fields whose updated_at is no timestamp was
\* streamed, another chunk followed it, and the stream completed
C7_Witness ==
    /\ StreamCompleted
    /\ Len(cuts) = 2
    /\ MalformedPiece(1)
    /\ Len(UpdateParts(PieceAt(1))) = MaxSplit + 1
    /\ Len(frames) = 3

\* a summary with a colon in it, and the timestamps a chunk may end with
ColonSummary == <<"w", ":", "w">>

Timestamps == {<<"D">>, <<"D", ":", "N">>, <<"D", ":", "N", ":", "N">>}

\* the text CONVERSATION_UPDATE:<conversation_id>:<summary>:<updated_at>
SentinelChunk(conversation_id, summary, updated_at) ==
    <<"CU", ":">> \o conversation_id \o <<":">> \o summary \o <<":">> \o updated_at

\* C30: a sentinel chunk whose summary contains a colon, once the loop has
\* handled it, has produced exactly one frame, a control frame whose summary
\* and updated_at are the ones the chunk was written with; it has not been
\* sent as a visible message.
C30_Original ==
    \A i \in 1..Len(cuts) : \A ts \in Timestamps :
        (/\ PieceAt(i) = SentinelChunk(<<"w">>, ColonSummary, ts)
         /\ FramesOf(cuts[i]) # {}) =>
            /\ Cardinality(FramesOf(cuts[i])) = 1
            /\ \A k \in FramesOf(cuts[i]) :
                  /\ frames[k].type = "conversation_update"
                  /\ frames[k].summary = ColonSummary
                  /\ frames[k].updated_at = ts

\* C17: while the model is being called for a conversation whose stored
\* transcript exceeds the threshold, the context it was given is smaller than
\* that transcript.
C17_Original ==
    (run_pc \in {"agent", "stream"} /\ Turns(db_messages) > TrimThreshold) =>
        Turns(history) < Turns(db_messages)

(***************************************************************************)
(* Claims about what a run of chat_stream.streamer persists                *)
(***************************************************************************)
\* positions of the Message rows written by run r
SegmentsOf(r) == {k \in 1..Len(db_messages) : db_messages[k].run = r}

\* C8: whenever a transcript segment of the current run is in storage, the
\* run is over and completed without error, every piece of its text
\* (the last one included) had reached the client before, and the segment is
\* the only one of the run and holds the whole text; so no segment exists
\* while the run streams, and none after a run that failed.
C8_StoredOnlyOnCompletion ==
    SegmentsOf(run_no) # {} =>
        /\ run_pc = "done"
        /\ run_outcome = "completed"
        /\ run_cause = "none"
        /\ Len(cuts) > 0
        /\ LastCut = Len(text)
        /\ FramesOf(Len(text)) # {}
        /\ Cardinality(SegmentsOf(run_no)) = 1
        /\ \A k \in SegmentsOf(run_no) : db_messages[k].text = text

\* C8 witness: the first run completed and stored its segment; the second
\* run failed after the first of its pieces, and storage still
\* holds the first run's segment only
C8_Witness ==
    /\ run_no = 2
    /\ run_pc = "done"
    /\ run_cause = "failure"
    /\ Len(cuts) = 1
    /\ LastCut < Len(text)
    /\ Cardinality(SegmentsOf(1)) = 1
    /\ SegmentsOf(2) = {}

\* C9: a run that a client disconnect has ended is over, has raised nothing
\* out of the generator (it returned, or was closed at a yield), and has
\* left no transcript segment, wherever in the run the disconnect came.
C9_DisconnectEndsQuietly ==
    run_cause = "disconnect" =>
        /\ run_pc = "done"
        /\ run_outcome \in {"returned", "closed"}
        /\ SegmentsOf(run_no) = {}

\* C9 witness: the client went away after the first of several pieces, while
\* the generator awaited the next one
C9_Witness ==
    /\ run_cause = "disconnect"
    /\ run_outcome = "returned"
    /\ Len(cuts) = 1
    /\ LastCut < Len(text)
    /\ Len(frames) = 2

\* C10 as stated: when a tool call that was in flight at the disconnect of
\* the current run comes to its end, the UserMeme rows and the conversation
\* summary are what they were before.
C10_Original ==
    [][(run_cause = "disconnect"
          /\ \E d \in detached : d.run = run_no /\ d \notin detached')
        => (db_memes' = db_memes /\ db_summary' = db_summary)]_vars

\* C10, amended: after a disconnect the run has no tool call in flight and no
\* transcript segment, and until the next run starts nothing is written but
\* what a tool call left running commits when it ends: that write (a new
\* UserMeme row, the summary, the favourite flag) does reach storage.
C10_DetachedCallMayCommit ==
    /\ [](run_cause = "disconnect" =>
             (tool_inflight = "none" /\ SegmentsOf(run_no) = {}))
    /\ [][(run_cause = "disconnect" /\ run_no' = run_no) =>
             /\ db_messages' = db_messages
             /\ tool_inflight' = "none"
             /\ \/ (db_memes' = db_memes /\ db_summary' = db_summary)
                \/ \E d \in detached :
                      /\ d \notin detached'
                      /\ db_memes' = MemesAfter(d.tool, db_memes, d.run, TRUE)
                      /\ db_summary' = SummaryAfter(d.tool, db_summary)]_vars

\* C10 witness: the run was cut off while an image tool was in flight, the
\* call has ended since, and the row it committed is in storage
C10_Witness ==
    /\ run_cause = "disconnect"
    /\ detached = {}
    /\ SegmentsOf(run_no) = {}
    /\ \E k \in 1..Len(db_memes) : db_memes[k].run = run_no /\ db_memes[k].late

C21_Original ==
    (run_pc = "done" /\ run_cause \in {"failure", "tool_retries"}) =>
        /\ run_outcome = "error_frame"
        /\ frames[Len(frames)] = ErrorFrame

\* C24 (as stated): within one run the stored summary is written at most
\* once; so during the first run of a conversation, whose summary was never
\* written before, it has been written at most once
C24_Original == run_no = 1 => db_summary <= 1

\* C25: the stored transcript is append-only.  No step changes or removes a
\* segment that is in storage; a step in which a run completes adds exactly
\* one segment, that run's, behind the others; and no other step adds any.
C25_TranscriptAppendOnly ==
    [][/\ Len(db_messages') >= Len(db_messages)
       /\ SubSeq(db_messages', 1, Len(db_messages)) = db_messages
       /\ IF run_outcome' = "completed" /\ run_outcome # "completed"
          THEN /\ Len(db_messages') = Len(db_messages) + 1
               /\ db_messages'[Len(db_messages')] = Segment(run_no, tools_called, text)
          ELSE db_messages' = db_messages]_vars

\* C25 witness: two runs have completed; storage holds the segment of the
\* first, then the segment of the second
C25_Witness ==
    /\ run_no = 2
    /\ run_outcome = "completed"
    /\ Len(db_messages) = 2
    /\ db_messages[1].run = 1
    /\ db_messages[2].run = 2

\* C27 (as stated): the history a run passes to the model is the stored
\* segments of the conversation, each once, in the order they were persisted
C27_Original ==
    run_pc \in {"agent", "tool", "stream"} => history = db_messages

(***************************************************************************)
(* Claims about the tools                                                  *)
(***************************************************************************)
ToolEnded(t) == tl_done.tool = t

\* C11: whenever meme_image_modification has ended under a configured
\* provider, having been given a response id that is not the one of the
\* conversation's newest UserMeme (or there being no UserMeme at all), it has
\* ended with a recoverable error and has created no UserMeme.
C11_Original ==
    (/\ ToolEnded("meme_image_modification")
     /\ tl_provider \in ConfiguredProviders
     /\ ~IsLatestHandle(tl_before, tl_done.arg)) =>
        /\ tl_result.kind = "ModelRetry"
        /\ tl_memes = tl_before

\* C12: whenever favourite_meme_in_db has ended on a conversation without
\* memes, it has returned the "nothing to favourite" text as a normal value,
\* the wrapper has invoked the operation once only, and no row has changed.
C12_NothingToFavourite ==
    (ToolEnded("favourite_meme_in_db") /\ ~HasMemes(tl_before)) =>
        /\ tl_result = ReturnResult("none_found")
        /\ tl_calls = 1
        /\ tl_memes = tl_before

\* C12 witness: the tool has run on the empty conversation
C12_Witness ==
    /\ ToolEnded("favourite_meme_in_db")
    /\ tl_before = <<>>
    /\ tl_result.kind = "return"

C14_Original ==
    (ToolEnded("meme_theme_factory") /\ tl_result.kind = "captions") =>
        tl_result.count = 3

\* C18: at no time are two tool calls of one run dispatched and not yet
\* ended.
C18_Original == Cardinality(tl_active) <= 1


C23_Original ==
    tl_urgent =>
        /\ ~ToolEnded("meme_theme_factory")
        /\ \A c \in tl_active : c.tool # "meme_theme_factory"
        /\ tl_batches > 0 => tl_searched


(***************************************************************************)
(* Claims about caption requests                                           *)
(***************************************************************************)
\* C26: for every caption request its owner has deleted, reading it gives
\* not-found, the owner's list of caption variants holds no variant of it,
\* and where the database enforces the foreign key no row of such a variant
\* is left in the table.
C26_DeletedRequestTakesVariants ==
    \A g \in cap_gone :
        /\ ReadCaptionRequest(cap_requests, g.owner, g.id) = 404
        /\ \A v \in ListCaptionVariants(cap_requests, cap_variants, g.owner) :
              v.request # g.id
        /\ cap_fk # "off" => \A v \in cap_variants : v.request # g.id

\* C26 witness: a request with two variants has been deleted by its owner
\* on a database that does not enforce foreign keys (the rows are left)
C26_Witness ==
    /\ cap_fk = "off"
    /\ \E g \in cap_gone :
          /\ g.had = 2
          /\ Cardinality({v \in cap_variants : v.request = g.id}) = 2


(***************************************************************************)
(* Claims about get_session                                                *)
(***************************************************************************)
\* C29 (as stated): at most one session is yielded per request; once the
\* generator is over, the session is closed; it is committed if the body
\* succeeded (rolled back if the commit itself failed), and rolled back if
\* the body raised, in which case the body's exception is what the
\* generator raised
C29_Original ==
    /\ Len(gs_sessions) <= 1
    /\ gs_pc = "done" =>
          /\ gs_sessions[1].closed
          /\ gs_body = "ok" =>
                IF gs_outcome = "returned" THEN gs_sessions[1].tx = "committed"
                ELSE gs_sessions[1].tx = "rolled_back"
          /\ gs_body \in BodyErrors \ NotAnException =>
                (gs_sessions[1].tx = "rolled_back" /\ gs_outcome = gs_body)

====
